---------------------------- MODULE Spec2Model ----------------------------
(***************************************************************************)
(* A model of the SMTP deliverability verifier of autoEmailer              *)
(* (src/mailer.js): the lexical filters, the MX resolver, the provider     *)
(* fingerprint, the SMTP probe (testSMTPConnection) and verifyEmail.       *)
(*                                                                         *)
(* JavaScript strings are modelled as sequences of one-character strings,  *)
(* so that split, includes, toLowerCase and the regular expressions of the *)
(* source are computed and not assumed.                                    *)
(***************************************************************************)
EXTENDS Integers, Sequences, FiniteSets, TLC

(***************************************************************************)
(* String primitives.                                                      *)
(***************************************************************************)
UpperChars == <<"A","B","C","D","E","F","G","H","I","J","K","L","M",
                "N","O","P","Q","R","S","T","U","V","W","X","Y","Z">>
LowerChars == <<"a","b","c","d","e","f","g","h","i","j","k","l","m",
                "n","o","p","q","r","s","t","u","v","w","x","y","z">>
DigitChars == {"0","1","2","3","4","5","6","7","8","9"}
SpaceChars == {" ", "\t", "\n", "\r"}

Range(s) == { s[k] : k \in DOMAIN s }

\* String.prototype.toLowerCase
toLowerCase(s) ==
  [k \in DOMAIN s |->
     IF \E u \in DOMAIN UpperChars : UpperChars[u] = s[k]
     THEN LowerChars[CHOOSE u \in DOMAIN UpperChars : UpperChars[u] = s[k]]
     ELSE s[k]]

\* String.prototype.includes
includes(s, sub) ==
  \E k \in 0..(Len(s) - Len(sub)) : SubSeq(s, k + 1, k + Len(sub)) = sub

\* a regular expression /^p/ for a literal p
startsWith(s, p) == Len(s) >= Len(p) /\ SubSeq(s, 1, Len(p)) = p

\* String.prototype.split on a one-character separator
RECURSIVE split(_, _)
split(s, sep) ==
  IF \A k \in DOMAIN s : s[k] # sep
  THEN << s >>
  ELSE LET k == CHOOSE j \in DOMAIN s : s[j] = sep /\ \A m \in 1..(j - 1) : s[m] # sep
       IN  << SubSeq(s, 1, k - 1) >> \o split(SubSeq(s, k + 1, Len(s)), sep)

\* Array.prototype.join
RECURSIVE join(_, _)
join(parts, sep) ==
  IF Len(parts) = 0 THEN << >>
  ELSE IF Len(parts) = 1 THEN parts[1]
  ELSE parts[1] \o sep \o join(Tail(parts), sep)

IsLowerAlpha(s) == Len(s) >= 1 /\ Range(s) \subseteq Range(LowerChars)
IsLowerAlnum(s) == Range(s) \subseteq (Range(LowerChars) \cup DigitChars)

(***************************************************************************)
(* The static lists of the lexical filters.                                *)
(***************************************************************************)
roleAccounts ==
  { <<"i","n","f","o">>,
    <<"a","d","m","i","n">>,
    <<"s","u","p","p","o","r","t">>,
    <<"s","a","l","e","s">>,
    <<"c","o","n","t","a","c","t">>,
    <<"h","e","l","p">>,
    <<"s","e","r","v","i","c","e">>,
    <<"o","f","f","i","c","e">>,
    <<"h","e","l","l","o">>,
    <<"t","e","a","m">>,
    <<"m","a","i","l">>,
    <<"w","e","b","m","a","s","t","e","r">>,
    <<"p","o","s","t","m","a","s","t","e","r">>,
    <<"n","o","r","e","p","l","y">>,
    <<"n","o","-","r","e","p","l","y">>,
    <<"j","o","b","s">>,
    <<"c","a","r","e","e","r","s">>,
    <<"h","r">>,
    <<"m","a","r","k","e","t","i","n","g">>,
    <<"b","i","l","l","i","n","g">>,
    <<"a","c","c","o","u","n","t","s">> }

disposableDomains ==
  { <<"t","e","m","p","m","a","i","l",".","c","o","m">>,
    <<"g","u","e","r","r","i","l","l","a","m","a","i","l",".","c","o","m">>,
    <<"1","0","m","i","n","u","t","e","m","a","i","l",".","c","o","m">>,
    <<"m","a","i","l","i","n","a","t","o","r",".","c","o","m">>,
    <<"t","h","r","o","w","a","w","a","y",".","e","m","a","i","l">>,
    <<"t","e","m","p","-","m","a","i","l",".","o","r","g">>,
    <<"m","a","i","l","d","r","o","p",".","c","c">>,
    <<"s","h","a","r","k","l","a","s","e","r","s",".","c","o","m">>,
    <<"y","o","p","m","a","i","l",".","c","o","m">>,
    <<"t","r","a","s","h","m","a","i","l",".","c","o","m">>,
    <<"f","a","k","e","i","n","b","o","x",".","c","o","m">>,
    <<"g","e","t","n","a","d","a",".","c","o","m">> }

freeProviders ==
  { <<"g","m","a","i","l",".","c","o","m">>,
    <<"y","a","h","o","o",".","c","o","m">>,
    <<"h","o","t","m","a","i","l",".","c","o","m">>,
    <<"o","u","t","l","o","o","k",".","c","o","m">>,
    <<"a","o","l",".","c","o","m">>,
    <<"i","c","l","o","u","d",".","c","o","m">>,
    <<"m","a","i","l",".","c","o","m">>,
    <<"p","r","o","t","o","n","m","a","i","l",".","c","o","m">>,
    <<"z","o","h","o",".","c","o","m">>,
    <<"y","a","n","d","e","x",".","c","o","m">>,
    <<"g","m","x",".","c","o","m">>,
    <<"l","i","v","e",".","c","o","m">> }

\* A shape check that only looks for an "@".
isValidFormatLoose(email) == "@" \in Range(email)

\* /^[^\s@]+@[^\s@]+\.[^\s@]+$/ : no white space, exactly one "@" with a
\* non-empty local part, and a "." after it with text on both sides.
isValidFormat(email) ==
  /\ Range(email) \cap SpaceChars = {}
  /\ Cardinality({ k \in DOMAIN email : email[k] = "@" }) = 1
  /\ LET at == CHOOSE k \in DOMAIN email : email[k] = "@"
     IN  /\ at > 1
         /\ \E d \in (at + 2)..(Len(email) - 1) : email[d] = "."

isRoleAccount(localPart) == toLowerCase(localPart) \in roleAccounts

isDisposableDomain(domain) == domain \in disposableDomains

isFreeEmailProvider(domain) == domain \in freeProviders

(***************************************************************************)
(* Provider fingerprint and heuristic scorer.                              *)
(***************************************************************************)
detectMailProvider(mxRecords) ==
  LET mxString == toLowerCase(join(mxRecords, <<" ">>))
  IN  IF includes(mxString, <<"g","o","o","g","l","e">>) \/ includes(mxString, <<"g","o","o","g","l","e","m","a","i","l">>)
      THEN "google_workspace"
      ELSE IF \/ includes(mxString, <<"o","u","t","l","o","o","k">>)
              \/ includes(mxString, <<"m","i","c","r","o","s","o","f","t">>)
              \/ includes(mxString, <<"o","f","f","i","c","e","3","6","5">>)
      THEN "microsoft365"
      ELSE IF includes(mxString, <<"z","o","h","o">>) THEN "zoho"
      ELSE IF includes(mxString, <<"p","r","o","t","o","n","m","a","i","l">>) THEN "protonmail"
      ELSE IF \/ includes(mxString, <<"g","m","a","i","l">>)
              \/ includes(mxString, <<"y","a","h","o","o">>)
              \/ includes(mxString, <<"h","o","t","m","a","i","l">>)
      THEN "consumer"
      ELSE "corporate"

Max(a, b) == IF a >= b THEN a ELSE b
Min(a, b) == IF a <= b THEN a ELSE b

\* /^[a-z0-9]{20,}$/
LooksRandom(localPart) == Len(localPart) >= 20 /\ IsLowerAlnum(localPart)

\* /^[a-z]+\.[a-z]+$/ or /^[a-z]+$/
LooksLikeName(localPart) ==
  \/ IsLowerAlpha(localPart)
  \/ LET parts == split(localPart, ".")
     IN  Len(parts) = 2 /\ IsLowerAlpha(parts[1]) /\ IsLowerAlpha(parts[2])

\* The sum of the awards and penalties, before it is clamped.
HeuristicRawScore(email, result, mailProvider) ==
  LET localPart == split(email, "@")[1]
  IN    (IF result.smtp_check THEN 40 ELSE 0)
      + (IF result.dns_check THEN 20 ELSE 0)
      + (IF mailProvider \in {"google_workspace", "microsoft365"} THEN 20
         ELSE IF mailProvider = "corporate" THEN 15 ELSE 0)
      - (IF result.is_role_account THEN 10 ELSE 0)
      - (IF Len(localPart) < 3 THEN 10 ELSE 0)
      - (IF LooksRandom(localPart) THEN 15 ELSE 0)
      + (IF LooksLikeName(localPart) THEN 10 ELSE 0)
      - (IF result.is_free_email THEN 5 ELSE 0)

\* A scorer that reads the two check flags before they are set and does not
\* clamp.
calculateHeuristicConfidenceRaw(email, result, mailProvider) ==
  HeuristicRawScore(email, [result EXCEPT !.smtp_check = FALSE, !.dns_check = FALSE],
                    mailProvider)

\* A scorer that awards a corporate exchanger 10 points instead of 15.
calculateHeuristicConfidenceCorporate10(email, result, mailProvider) ==
  Max(0, Min(100, HeuristicRawScore(email, result, mailProvider)
                    - (IF mailProvider = "corporate" THEN 5 ELSE 0)))

calculateHeuristicConfidence(email, result, mailProvider) ==
  Max(0, Min(100, HeuristicRawScore(email, result, mailProvider)))

\* Array.prototype.sort((a, b) => a.priority - b.priority), which is stable.
RECURSIVE insertByPriority(_, _)
insertByPriority(sorted, mx) ==
  IF Len(sorted) = 0 THEN << mx >>
  ELSE IF mx.priority < sorted[1].priority THEN << mx >> \o sorted
  ELSE << sorted[1] >> \o insertByPriority(Tail(sorted), mx)

RECURSIVE sortByPriority(_)
sortByPriority(records) ==
  IF Len(records) = 0 THEN << >>
  ELSE insertByPriority(sortByPriority(SubSeq(records, 1, Len(records) - 1)),
                        records[Len(records)])

(***************************************************************************)
(* The SMTP probe, testSMTPConnection.                                     *)
(***************************************************************************)
CRLF == << "\r", "\n" >>

\* the four commands of one probe
commands(email) ==
  << <<"H","E","L","O"," ","v","e","r","i","f","y",".","e","x","a","m","p","l","e",".","c","o","m">> \o CRLF,
     <<"M","A","I","L"," ","F","R","O","M",":","<","v","e","r","i","f","y","@","e","x","a","m","p","l","e",".","c","o","m",">">> \o CRLF,
     <<"R","C","P","T"," ","T","O",":","<">> \o email \o <<">">> \o CRLF,
     <<"Q","U","I","T">> \o CRLF >>

\* The position of the first CRLF of s at or after position from; 0 if none.
RECURSIVE indexOfCRLF(_, _)
indexOfCRLF(s, from) ==
  IF from >= Len(s) THEN 0
  ELSE IF s[from] = "\r" /\ s[from + 1] = "\n" THEN from
  ELSE indexOfCRLF(s, from + 1)

\* String.prototype.split('\r\n')
RECURSIVE splitCRLF(_)
splitCRLF(s) ==
  LET k == indexOfCRLF(s, 1)
  IN  IF k = 0 THEN << s >>
      ELSE << SubSeq(s, 1, k - 1) >> \o splitCRLF(SubSeq(s, k + 2, Len(s)))

\* lines[lines.length - 2] || ''
lastLineOf(lines) ==
  IF Len(lines) >= 2 THEN lines[Len(lines) - 1] ELSE << >>

\* The text after the last CRLF of the buffer: an unterminated line.
tailOf(lines) == lines[Len(lines)]

IsDigits(s) == Range(s) \subseteq DigitChars

\* lastLine.match(/^(\d{3})/)
matchCode(lastLine) ==
  IF Len(lastLine) >= 3 /\ IsDigits(SubSeq(lastLine, 1, 3))
  THEN SubSeq(lastLine, 1, 3) ELSE << >>

\* /^[23]\d{2}/
isPositiveReply(lastLine) ==
  /\ Len(lastLine) >= 3
  /\ lastLine[1] \in {"2", "3"}
  /\ IsDigits(SubSeq(lastLine, 2, 3))

\* /^[45]\d{2}/
isNegativeReply(lastLine) ==
  /\ Len(lastLine) >= 3
  /\ lastLine[1] \in {"4", "5"}
  /\ IsDigits(SubSeq(lastLine, 2, 3))

rejectionPhrases ==
  { <<"u","s","e","r"," ","u","n","k","n","o","w","n">>, <<"d","o","e","s"," ","n","o","t"," ","e","x","i","s","t">>, <<"n","o"," ","s","u","c","h"," ","u","s","e","r">>,
    <<"i","n","v","a","l","i","d"," ","r","e","c","i","p","i","e","n","t">>, <<"r","e","c","i","p","i","e","n","t"," ","r","e","j","e","c","t","e","d">> }

hasRejectionPhrase(lastLine) ==
  \E phrase \in rejectionPhrases : includes(toLowerCase(lastLine), phrase)

\* The promise of a probe: pending, or settled with its ProbeOutcome.  An
\* absent code is the empty string.
Pending ==
  [settled |-> FALSE, connected |-> FALSE, accepted |-> FALSE,
   reason |-> << >>, code |-> << >>]

Outcome(connected, accepted, reason, code) ==
  [settled |-> TRUE, connected |-> connected, accepted |-> accepted,
   reason |-> reason, code |-> code]

\* The classification of the line the probe decides on (step 2).
classify(lastLine, lastResponseCode) ==
  IF startsWith(lastLine, <<"2","5","0">>)
  THEN IF hasRejectionPhrase(lastLine)
       THEN Outcome(TRUE, FALSE, <<"U","s","e","r"," ","d","o","e","s"," ","n","o","t"," ","e","x","i","s","t">>, lastResponseCode)
       ELSE Outcome(TRUE, TRUE, <<"E","m","a","i","l"," ","a","c","c","e","p","t","e","d">>, lastResponseCode)
  ELSE IF \E c \in {<<"5","5","0">>, <<"5","5","1">>, <<"5","5","3">>, <<"5","5","4">>} : startsWith(lastLine, c)
  THEN Outcome(TRUE, FALSE, <<"U","s","e","r"," ","d","o","e","s"," ","n","o","t"," ","e","x","i","s","t">>, lastResponseCode)
  ELSE IF \E c \in {<<"4","5","0">>, <<"4","5","1">>, <<"4","5","2">>} : startsWith(lastLine, c)
  THEN Outcome(TRUE, FALSE, <<"T","e","m","p","o","r","a","r","y"," ","e","r","r","o","r"," ","-"," ","g","r","e","y","l","i","s","t","i","n","g">>, lastResponseCode)
  ELSE IF isNegativeReply(lastLine)
  THEN Outcome(TRUE, FALSE, <<"E","m","a","i","l"," ","r","e","j","e","c","t","e","d">>, lastResponseCode)
  ELSE Outcome(TRUE, FALSE, <<"U","n","k","n","o","w","n"," ","r","e","s","p","o","n","s","e">>, lastResponseCode)

\* The closure of one testSMTPConnection call: its socket, its buffer, its
\* dialogue step, its timer and its promise.  wire is what the socket has
\* accepted for transmission.  response is kept from its last complete line
\* on, which is all that lines[lines.length - 2] reads.  rcptAnswered records
\* that a complete line arrived when RCPT TO was already written, arrived
\* that the latest data event completed a line.  retired
\* marks a closure whose outcome verifyEmail has taken (see retire).
NoProbe ==
  [email |-> << >>, mxHost |-> << >>, socket |-> "none", response |-> << >>,
   step |-> 0, lastResponseCode |-> << >>, timeout |-> "none",
   promise |-> Pending, wire |-> << >>,
   rcptAnswered |-> FALSE, arrived |-> FALSE, retired |-> FALSE]

\* net.createConnection(25, mxHost) and setTimeout(..., 15000)
testSMTPConnection(email, mxHost) ==
  [NoProbe EXCEPT !.email = email, !.mxHost = mxHost,
                  !.socket = "open", !.timeout = "armed"]

\* The first resolve of a promise settles it; later ones do nothing.
resolve(p, outcome) ==
  IF p.promise.settled THEN p ELSE [p EXCEPT !.promise = outcome]

\* clearTimeout left out
clearTimeoutForgotten(p) == p

clearTimeout(p) ==
  IF p.timeout = "armed" THEN [p EXCEPT !.timeout = "cleared"] ELSE p

socketDestroy(p) ==
  IF p.socket \in {"open", "ended"} THEN [p EXCEPT !.socket = "destroyed"] ELSE p

socketEnd(p) ==
  IF p.socket = "open" THEN [p EXCEPT !.socket = "ended"] ELSE p

\* socket.on('error'): the stream destroys itself when it emits an error.
onError(p, message) ==
  socketDestroy(resolve(clearTimeout(p), Outcome(FALSE, FALSE, message, << >>)))

\* socket.write: an open socket takes the bytes; a socket whose writable side
\* was ended takes nothing and emits 'error' (write after end).
socketWrite(p, bytes) ==
  IF p.socket = "open" THEN [p EXCEPT !.wire = Append(@, bytes)]
  ELSE IF p.socket = "ended"
  THEN onError(p, <<"w","r","i","t","e"," ","a","f","t","e","r"," ","e","n","d">>)
  ELSE p

\* commands[step + 1]
commandAtNext(p) == commands(p.email)[p.step + 2]

\* commands[step]
commandAt(p) == commands(p.email)[p.step + 1]

\* RCPT TO is on the wire.
rcptWritten(p) == \E k \in DOMAIN p.wire : p.wire[k] = commands(p.email)[3]

\* The buffer from its last complete line on.
keepFromLastLine(lines) ==
  IF Len(lines) >= 2
  THEN lines[Len(lines) - 1] \o CRLF \o lines[Len(lines)]
  ELSE lines[1]

\* The complete lines a data event adds to the buffer of p.
newLines(p, data) ==
  LET old == splitCRLF(p.response)
      new == splitCRLF(p.response \o data)
  IN  SubSeq(new, Len(old), Len(new) - 1)

\* What the decisive branch (step === 2) does after writing commands[2].
decide(p, lastLine) ==
  resolve(socketEnd(socketWrite(clearTimeout(p), commands(p.email)[4])),
          classify(lastLine, p.lastResponseCode))

\* socket.on('data')
onData(p, data) ==
  LET lines    == splitCRLF(p.response \o data)
      lastLine == lastLineOf(lines)
      match    == matchCode(lastLine)
      arrived  == Len(lines) > Len(splitCRLF(p.response))
      p0 == [p EXCEPT
               !.response = keepFromLastLine(lines),
               !.lastResponseCode = IF match # << >> THEN match ELSE @,
               !.rcptAnswered = @ \/ (rcptWritten(p) /\ arrived),
               !.arrived = arrived]
  IN  IF isPositiveReply(lastLine)
      THEN IF p0.step < 3
           THEN LET p1 == socketWrite(p0, commandAt(p0))
                IN  IF p0.step = 2
                    THEN decide(p1, lastLine)
                    ELSE [p1 EXCEPT !.step = @ + 1]
           ELSE p0
      ELSE IF isNegativeReply(lastLine)
      THEN resolve(socketDestroy(clearTimeout(p0)),
                   Outcome(FALSE, FALSE, <<"S","M","T","P"," ","e","r","r","o","r",":"," ">> \o lastLine,
                           p0.lastResponseCode))
      ELSE p0

\* verifyEmail takes the outcome of a probe.  A closure
\* whose socket is gone and whose timer is not armed can run no handler again:
\* it is garbage, and the model keeps only its socket, its timer and its
\* promise.  A closure whose socket is still half open stays as it is.
retire(p) ==
  IF p.socket = "ended" \/ p.timeout = "armed"
  THEN [p EXCEPT !.retired = TRUE]
  ELSE [NoProbe EXCEPT !.socket = p.socket, !.timeout = p.timeout,
                       !.promise = p.promise, !.retired = TRUE]

\* A timer callback that destroys the socket and forgets to resolve.
onTimeoutSilent(p) == socketDestroy([p EXCEPT !.timeout = "fired"])

\* the setTimeout callback
onTimeout(p) ==
  resolve(socketDestroy([p EXCEPT !.timeout = "fired"]),
          Outcome(FALSE, FALSE, <<"C","o","n","n","e","c","t","i","o","n"," ","t","i","m","e","o","u","t">>, << >>))

(***************************************************************************)
(* Inputs of the model: sample addresses, DNS answers, server lines.       *)
(***************************************************************************)
EmailNoAt       == <<"p","l","a","i","n","a","d","d","r","e","s","s">>
EmailNoDot      == <<"j","o","e","@","l","o","c","a","l","h","o","s","t">>
EmailSpace      == <<"j","o","e"," ","s","m","i","t","h","@","a","c","m","e",".","i","o">>
EmailDisposable == <<"b","o","b","@","M","a","i","l","i","n","a","t","o","r",".","c","o","m">>
EmailRole       == <<"H","R","@","g","m","a","i","l",".","c","o","m">>
EmailName       == <<"j","a","n","e",".","d","o","e","@","a","c","m","e",".","i","o">>
EmailRandom     == <<"a","1","b","2","c","3","d","4","e","5","f","6","g","7","h","8","i","9","j","0","@","y","a","h","o","o",".","c","o","m">>
EmailPlain      == <<"J","_","S","m","i","t","h","@","a","c","m","e",".","i","o">>

Emails ==
  { EmailNoAt, EmailNoDot, EmailSpace, EmailDisposable, EmailRole,
    EmailName, EmailRandom, EmailPlain }

\* What dns.resolveMx settles with: an error (caught, giving null) or a list
\* of { priority, exchange } records.
MxAnswers ==
  { [ok |-> FALSE, records |-> << >>],
    [ok |-> TRUE,  records |-> << >>],
    [ok |-> TRUE,  records |->
       << [priority |-> 10, exchange |-> <<"a","l","t","1",".","a","s","p","m","x",".","l",".","g","o","o","g","l","e",".","c","o","m">>],
          [priority |-> 1,  exchange |-> <<"A","S","P","M","X",".","L",".","G","O","O","G","L","E",".","C","O","M">>] >>],
    [ok |-> TRUE,  records |->
       << [priority |-> 0, exchange |-> <<"a","c","m","e","-","i","o",".","m","a","i","l",".","p","r","o","t","e","c","t","i","o","n",".","o","u","t","l","o","o","k",".","c","o","m">>] >>],
    [ok |-> TRUE,  records |->
       << [priority |-> 20, exchange |-> <<"m","x","2",".","z","o","h","o",".","c","o","m">>],
          [priority |-> 10, exchange |-> <<"m","x",".","z","o","h","o",".","c","o","m">>] >>],
    [ok |-> TRUE,  records |->
       << [priority |-> 10, exchange |-> <<"m","a","i","l",".","p","r","o","t","o","n","m","a","i","l",".","c","h">>] >>],
    [ok |-> TRUE,  records |->
       << [priority |-> 1, exchange |-> <<"m","t","a","5",".","a","m","0",".","y","a","h","o","o","d","n","s",".","n","e","t">>] >>],
    [ok |-> TRUE,  records |->
       << [priority |-> 10, exchange |-> <<"m","x","1",".","a","c","m","e",".","i","o">>] >>] }

\* crypto.randomBytes(16).toString('hex')
RandomStrings ==
  { <<"9","f","8","6","d","0","8","1","8","8","4","c","7","d","6","5","9","a","2","f","e","a","a","0","c","5","5","a","d","0","1","5">>,
    <<"0","b","1","c","2","d","3","e","4","f","5","0","6","1","7","2","8","3","9","4","a","5","b","6","c","7","d","8","e","9","f","0">> }

\* What a server sends.  A data event delivers one or more segments: whole
\* lines, or the two halves of a reply the transport cut in the middle.
Line220     == <<"2","2","0"," ","m","x"," ","r","e","a","d","y">>
Line250     == <<"2","5","0"," ","O","K">>
Line250Rej  == <<"2","5","0"," ","R","e","c","i","p","i","e","n","t"," ","R","e","j","e","c","t","e","d"," ","b","y"," ","p","o","l","i","c","y">>
Line550     == <<"5","5","0"," ","N","o"," ","s","u","c","h"," ","u","s","e","r">>
LineNoCode  == <<"E","S","M","T","P"," ","r","e","a","d","y">>
PartialText == <<"2","5">>
PartialRest == <<"0"," ","O","K">>

ReplyLines == { Line220, Line250, Line250Rej, Line550, LineNoCode }

LineSegments == { line \o CRLF : line \in ReplyLines }

CutSegments == { PartialText, PartialRest \o CRLF }

\* How many whole lines one data event delivers at most, and how many
\* segments when replies may be cut.
MaxLinesPerChunk == 1
MaxSegmentsPerChunk == 2

RECURSIVE ChunksOf(_, _)
ChunksOf(segments, n) ==
  IF n = 0 THEN { << >> }
  ELSE { c \o s : c \in ChunksOf(segments, n - 1), s \in segments }

\* data events made of whole lines
LineChunks == UNION { ChunksOf(LineSegments, n) : n \in 1..MaxLinesPerChunk }

\* data events in which a reply may be cut, or that deliver more lines
CutChunks ==
  UNION { ChunksOf(LineSegments \cup CutSegments, n) : n \in 1..MaxSegmentsPerChunk }
    \ LineChunks

ErrorMessages == { <<"c","o","n","n","e","c","t"," ","E","C","O","N","N","R","E","F","U","S","E","D">>, <<"r","e","a","d"," ","E","C","O","N","N","R","E","S","E","T">> }

(***************************************************************************)
(* verifyEmail.                                                            *)
(***************************************************************************)
numTests == 2

ProbeIds == 1..(1 + numTests)

\* What a caller passes as options: nothing (the default {} applies), null,
\* or an object with or without skipCatchAll set.
Options ==
  { [kind |-> "undefined", skipCatchAll |-> FALSE],
    [kind |-> "null",      skipCatchAll |-> FALSE],
    [kind |-> "object",    skipCatchAll |-> FALSE],
    [kind |-> "object",    skipCatchAll |-> TRUE] }

\* What a caller passes as email: a string, or a one-element array holding it
\* (String(email) is then the same text).
EmailKinds == { "string", "array" }

VARIABLES
  email,          \* the text of the address verifyEmail was called with
  emailKind,      \* whether the argument is that string or an array of it
  options,        \* the options argument
  skipCatchAll,   \* const skipCatchAll = options.skipCatchAll || false
  pc,             \* where verifyEmail is: "entry", an await, or "returned"
  result,         \* the VerificationResult under construction
  domainLower,
  mailProvider,
  mxHost,
  realEmailCheck, \* the outcome of the real-address probe
  randomTests,    \* the outcomes of the synthetic probes
  i,              \* the loop counter of the catch-all test
  probe,          \* the testSMTPConnection closures: 1 real, 2.. synthetic
  mxLookups,      \* how many times resolveMx was called
  realRcptReply   \* the first line the server sent to the real-address probe
                  \* once its RCPT TO was written

verifierVars ==
  << email, emailKind, options, skipCatchAll, pc, result, domainLower, mailProvider, mxHost,
     realEmailCheck, randomTests, i, probe, mxLookups, realRcptReply >>

(***************************************************************************)
(* The state of the sending loop (the first part of src/mailer.js).        *)
(***************************************************************************)
\* EmailContacts_fixed.csv: a contact, a row that is no address, a contact
\* at the domain of the first one (spelled in upper case), a contact at
\* another domain.
Contacts ==
  << [email |-> <<"a","n","n","@","x",".","i","o">>],
     [email |-> <<"n","o","t","-","a","n","-","a","d","d","r","e","s","s">>],
     [email |-> <<"b","o","b","@","X",".","I","O">>],
     [email |-> <<"c","y","@","y",".","i","o">>] >>

\* Another file: three contacts at one domain.
ContactsSameDomain ==
  << [email |-> <<"a","n","n","@","x",".","i","o">>],
     [email |-> <<"b","o","b","@","X",".","I","O">>],
     [email |-> <<"d","e","e","@","x",".","i","o">>] >>

\* A file with repeated rows: the second contact twice in a row, and the
\* first one again at the end.
ContactsRepeated ==
  << [email |-> <<"a","n","n","@","x",".","i","o">>],
     [email |-> <<"b","o","b","@","X",".","I","O">>],
     [email |-> <<"b","o","b","@","X",".","I","O">>],
     [email |-> <<"a","n","n","@","x",".","i","o">>] >>

ContactLists == { Contacts, ContactsSameDomain, ContactsRepeated }

LeadEmails ==
  UNION { { list[k].email : k \in DOMAIN list } : list \in ContactLists }

\* email.split('@')[1]?.toLowerCase() || ''
extractDomain(address) ==
  LET parts == split(address, "@")
  IN  IF Len(parts) >= 2 THEN toLowerCase(parts[2]) ELSE << >>

Domains == { extractDomain(a) : a \in LeadEmails } \ { << >> }

\* process.env.FROM_ALIASES.split(",")
aliases == << "alias1", "alias2" >>

\* parseInt(process.env.MAX_PER_RUN)
maxPerRun == 2

\* 30 * 60 * 1000 ms, in minutes
DOMAIN_COOLDOWN == 30

\* How many times the script is started, and how many midnights pass.
MaxRuns == 2
MaxDay == 1

\* The pause between two contacts, 120000 + Math.random() * 180000 ms, and
\* the pause when every queued contact is on cooldown, in minutes.
DelayMinutes == { 3 }
CooldownWaitMinutes == 5

\* The time between the end of one run and the start of the next, in minutes.
RestartGaps == { 0, 30 }

\* What the verification service answers, and how sendMail fails.
VerifyStatuses == { <<"s","a","f","e">>, <<"i","n","v","a","l","i","d">>, <<"e","r","r","o","r">> }
SendErrors == { <<"5","5","0"," ","5",".","1",".","1"," ","N","o","S","u","c","h","U","s","e","r">>, <<"C","o","n","n","e","c","t","i","o","n"," ","t","i","m","e","o","u","t">> }

\* new Date().toISOString(): a non-empty text
Timestamp == <<"I","S","O","-","8","6","0","1">>

VARIABLES
  leads,              \* the rows of the contacts file, which every run loads
  senderPc,           \* "off", "loop", "verifying", "sending", "delay", "waitCooldown"
  lastIndex,
  sentLog,            \* address -> text; the empty text is no entry
  progress,           \* [lastIndex, lastRunDate, sentToday]
  domainLastSent,     \* domain -> time; 0 is no entry
  cooldownQueue,
  aliasIndex,
  lead,               \* the contact of the current iteration
  isFromQueue,
  disk,               \* sent.json
  now,                \* Date.now(), in minutes
  today,              \* the calendar day
  runs,               \* how many times the script was started
  verificationResult, \* the status verifyEmail returned in this iteration
  outbox              \* the sendMail calls made so far, with their outcome

senderVars ==
  << leads, senderPc, lastIndex, sentLog, progress, domainLastSent, cooldownQueue,
     aliasIndex, lead, isFromQueue, disk, now, today, runs, verificationResult,
     outbox >>

vars == << verifierVars, senderVars >>

NoLead == [email |-> << >>]

NoSentLog == [a \in LeadEmails |-> << >>]

NoDomainLastSent == [d \in Domains |-> 0]

NoFile ==
  [exists |-> FALSE, sentLog |-> NoSentLog,
   progress |-> [lastIndex |-> 0, lastRunDate |-> 0, sentToday |-> 0],
   domainLastSent |-> NoDomainLastSent, cooldownQueue |-> << >>]

\* The memory of a process that is not running.
senderOff ==
  /\ senderPc' = "off"
  /\ lastIndex' = 0
  /\ sentLog' = NoSentLog
  /\ progress' = [lastIndex |-> 0, lastRunDate |-> 0, sentToday |-> 0]
  /\ domainLastSent' = NoDomainLastSent
  /\ cooldownQueue' = << >>
  /\ aliasIndex' = 0
  /\ lead' = NoLead
  /\ isFromQueue' = FALSE
  /\ verificationResult' = << >>

SenderInit ==
  /\ senderPc = "off"
  /\ lastIndex = 0
  /\ sentLog = NoSentLog
  /\ progress = [lastIndex |-> 0, lastRunDate |-> 0, sentToday |-> 0]
  /\ domainLastSent = NoDomainLastSent
  /\ cooldownQueue = << >>
  /\ aliasIndex = 0
  /\ lead = NoLead
  /\ isFromQueue = FALSE
  /\ disk = NoFile
  /\ now = 1
  /\ today = 1
  /\ runs = 0
  /\ verificationResult = << >>
  /\ outbox = << >>

NoReply == [answered |-> FALSE, line |-> << >>]

newResult(e) ==
  [email |-> e, status |-> "unknown", reason |-> << >>,
   is_catch_all |-> FALSE, is_disposable |-> FALSE, is_free_email |-> FALSE,
   is_role_account |-> FALSE, mx_records |-> << >>, smtp_check |-> FALSE,
   dns_check |-> FALSE, confidence_score |-> 0, risk_level |-> "unknown"]

invalidFormat(r) ==
  [r EXCEPT !.status = "invalid", !.reason = <<"I","n","v","a","l","i","d"," ","e","m","a","i","l"," ","f","o","r","m","a","t">>,
            !.confidence_score = 0]

disposable(r) ==
  [r EXCEPT !.status = "invalid", !.reason = <<"D","i","s","p","o","s","a","b","l","e"," ","e","m","a","i","l"," ","a","d","d","r","e","s","s">>,
            !.confidence_score = 0, !.risk_level = "high"]

\* A no-MX return that, like the invalid-format return, leaves the risk unset.
noMxRecordsNoRisk(r) ==
  [r EXCEPT !.status = "invalid", !.reason = <<"N","o"," ","M","X"," ","r","e","c","o","r","d","s"," ","f","o","u","n","d">>,
            !.dns_check = FALSE, !.confidence_score = 0]

noMxRecords(r) ==
  [r EXCEPT !.status = "invalid", !.reason = <<"N","o"," ","M","X"," ","r","e","c","o","r","d","s"," ","f","o","u","n","d">>,
            !.dns_check = FALSE, !.confidence_score = 0, !.risk_level = "high"]

\* A not-connected return that reports the address as rejected.
couldNotConnectInvalid(r) ==
  [r EXCEPT !.status = "invalid", !.reason = <<"C","o","u","l","d"," ","n","o","t"," ","c","o","n","n","e","c","t"," ","t","o"," ","m","a","i","l"," ","s","e","r","v","e","r">>,
            !.confidence_score = 10, !.risk_level = "high"]

couldNotConnect(r) ==
  [r EXCEPT !.status = "unknown", !.reason = <<"C","o","u","l","d"," ","n","o","t"," ","c","o","n","n","e","c","t"," ","t","o"," ","m","a","i","l"," ","s","e","r","v","e","r">>,
            !.confidence_score = 50, !.risk_level = "medium"]

rejected(r, check) ==
  [r EXCEPT !.status = "invalid",
            !.reason = IF check.reason # << >> THEN check.reason
                       ELSE <<"E","m","a","i","l"," ","d","o","e","s"," ","n","o","t"," ","e","x","i","s","t">>,
            !.confidence_score = 10, !.risk_level = "high"]

\* A skip-catch-all branch whose first threshold is 50.
heuristicVerdictLowAt50(r, confidence) ==
  IF confidence >= 50
  THEN [r EXCEPT !.confidence_score = confidence, !.status = "valid",
                 !.reason = <<"E","m","a","i","l"," ","a","c","c","e","p","t","e","d"," ","b","y"," ","m","a","i","l"," ","s","e","r","v","e","r">>,
                 !.risk_level = "low"]
  ELSE [r EXCEPT !.confidence_score = confidence, !.status = "unknown",
                 !.reason = <<"C","a","n","n","o","t"," ","v","e","r","i","f","y"," ","d","e","f","i","n","i","t","i","v","e","l","y">>,
                 !.risk_level = "medium"]

\* the skip-catch-all branch: score, then status and risk from the score
\* the heuristic verdict with a score below 50 taken as a rejection
heuristicVerdictInvalidBelow50(r, confidence) ==
  IF confidence >= 50
  THEN [r EXCEPT !.confidence_score = confidence, !.status = "valid",
                 !.risk_level = IF confidence >= 75 THEN "low" ELSE "medium"]
  ELSE [r EXCEPT !.confidence_score = confidence, !.status = "invalid",
                 !.risk_level = "medium"]

heuristicVerdict(r, confidence) ==
  IF confidence >= 75
  THEN [r EXCEPT !.confidence_score = confidence, !.status = "valid",
                 !.reason = <<"E","m","a","i","l"," ","a","c","c","e","p","t","e","d"," ","b","y"," ","m","a","i","l"," ","s","e","r","v","e","r">>,
                 !.risk_level = "low"]
  ELSE IF confidence >= 50
  THEN [r EXCEPT !.confidence_score = confidence, !.status = "valid",
                 !.reason = <<"L","i","k","e","l","y"," ","v","a","l","i","d"," ","(","c","o","r","p","o","r","a","t","e"," ","m","a","i","l"," ","s","e","r","v","e","r",")">>,
                 !.risk_level = "medium"]
  ELSE [r EXCEPT !.confidence_score = confidence, !.status = "unknown",
                 !.reason = <<"C","a","n","n","o","t"," ","v","e","r","i","f","y"," ","d","e","f","i","n","i","t","i","v","e","l","y">>,
                 !.risk_level = "medium"]

\* An end of the catch-all test that names the synthetic address it tried
\* first in the reason.
catchAllVerdictNamesProbe(r, tests) ==
  LET acceptedCount == Cardinality({ k \in DOMAIN tests : tests[k].accepted })
  IN  IF acceptedCount = numTests
      THEN [r EXCEPT !.is_catch_all = TRUE, !.status = "catch_all",
                     !.reason = <<"D","o","m","a","i","n"," ","a","c","c","e","p","t","s"," ","a","l","l"," ","e","m","a","i","l","s"," ","(","c","a","t","c","h","-","a","l","l",")",":"," ">> \o probe[2].email,
                     !.confidence_score = 60, !.risk_level = "medium"]
      ELSE [r EXCEPT !.status = "valid",
                     !.reason = <<"E","m","a","i","l"," ","v","e","r","i","f","i","e","d"," ","s","u","c","c","e","s","s","f","u","l","l","y">>,
                     !.confidence_score = 90, !.risk_level = "low"]

\* An end of the catch-all test that takes one accepted synthetic address
\* for a catch-all domain.
catchAllVerdictAny(r, tests) ==
  LET acceptedCount == Cardinality({ k \in DOMAIN tests : tests[k].accepted })
  IN  IF acceptedCount > 0
      THEN [r EXCEPT !.is_catch_all = TRUE, !.status = "catch_all",
                     !.reason = <<"D","o","m","a","i","n"," ","a","c","c","e","p","t","s"," ","a","l","l"," ","e","m","a","i","l","s"," ","(","c","a","t","c","h","-","a","l","l",")">>,
                     !.confidence_score = 60, !.risk_level = "medium"]
      ELSE [r EXCEPT !.status = "valid",
                     !.reason = <<"E","m","a","i","l"," ","v","e","r","i","f","i","e","d"," ","s","u","c","c","e","s","s","f","u","l","l","y">>,
                     !.confidence_score = 90, !.risk_level = "low"]

\* An end of the catch-all test that sets the status and forgets the flag.
catchAllVerdictNoFlag(r, tests) ==
  LET acceptedCount == Cardinality({ k \in DOMAIN tests : tests[k].accepted })
  IN  IF acceptedCount = numTests
      THEN [r EXCEPT !.status = "catch_all",
                     !.reason = <<"D","o","m","a","i","n"," ","a","c","c","e","p","t","s"," ","a","l","l"," ","e","m","a","i","l","s"," ","(","c","a","t","c","h","-","a","l","l",")">>,
                     !.confidence_score = 60, !.risk_level = "medium"]
      ELSE [r EXCEPT !.status = "valid",
                     !.reason = <<"E","m","a","i","l"," ","v","e","r","i","f","i","e","d"," ","s","u","c","c","e","s","s","f","u","l","l","y">>,
                     !.confidence_score = 90, !.risk_level = "low"]

\* the end of the catch-all test
\* the verdict with the synthetic probes that did not connect left out of
\* the count
catchAllVerdictConnectedOnly(r, tests) ==
  IF \A k \in DOMAIN tests : tests[k].connected => tests[k].accepted
  THEN [r EXCEPT !.is_catch_all = TRUE, !.status = "catch_all",
                 !.reason = <<"D","o","m","a","i","n"," ","a","c","c","e","p","t","s"," ","a","l","l"," ","e","m","a","i","l","s"," ","(","c","a","t","c","h","-","a","l","l",")">>,
                 !.confidence_score = 60, !.risk_level = "medium"]
  ELSE [r EXCEPT !.status = "valid",
                 !.reason = <<"E","m","a","i","l"," ","v","e","r","i","f","i","e","d"," ","s","u","c","c","e","s","s","f","u","l","l","y">>,
                 !.confidence_score = 90, !.risk_level = "low"]

catchAllVerdict(r, tests) ==
  LET acceptedCount == Cardinality({ k \in DOMAIN tests : tests[k].accepted })
  IN  IF acceptedCount = numTests
      THEN [r EXCEPT !.is_catch_all = TRUE, !.status = "catch_all",
                     !.reason = <<"D","o","m","a","i","n"," ","a","c","c","e","p","t","s"," ","a","l","l"," ","e","m","a","i","l","s"," ","(","c","a","t","c","h","-","a","l","l",")">>,
                     !.confidence_score = 60, !.risk_level = "medium"]
      ELSE [r EXCEPT !.status = "valid",
                     !.reason = <<"E","m","a","i","l"," ","v","e","r","i","f","i","e","d"," ","s","u","c","c","e","s","s","f","u","l","l","y">>,
                     !.confidence_score = 90, !.risk_level = "low"]

\* A skip condition that leaves the provider policy to the caller's flag.
skipsCatchAllTestFlagOnly(skip, provider) == skip

skipsCatchAllTest(skip, provider) ==
  skip \/ provider \in {"google_workspace", "microsoft365", "corporate"}

generateRandomEmail(randomString, domain) == randomString \o << "@" >> \o domain

verifierInit ==
  /\ email \in Emails
  /\ emailKind \in EmailKinds
  /\ options \in Options
  /\ skipCatchAll = FALSE
  /\ pc = "entry"
  /\ result = newResult(email)
  /\ domainLower = << >>
  /\ mailProvider = ""
  /\ mxHost = << >>
  /\ realEmailCheck = Pending
  /\ randomTests = << >>
  /\ i = 0
  /\ probe = [c \in ProbeIds |-> NoProbe]
  /\ mxLookups = 0
  /\ realRcptReply = NoReply

Init ==
  /\ verifierInit
  /\ SenderInit
  /\ leads = Contacts

\* the catch block of verifyEmail
verificationError(r, message) ==
  [r EXCEPT !.status = "unknown",
            !.reason = <<"V","e","r","i","f","i","c","a","t","i","o","n"," ","e","r","r","o","r",":"," ">> \o message,
            !.confidence_score = 50, !.risk_level = "medium"]

\* verifyEmail from its call to its first await (or an early return).
\* Reading options.debug of null throws before the try block: the call
\* rejects.  regex.test(email) converts its argument to a string; email.split
\* of an array throws inside the try block.
Enter ==
  /\ pc = "entry"
  /\ IF options.kind = "null"
     THEN /\ pc' = "rejected"
          /\ UNCHANGED << skipCatchAll, result, domainLower, mxLookups >>
     ELSE /\ skipCatchAll' = options.skipCatchAll
          /\ IF ~ isValidFormat(email)
             THEN /\ result' = invalidFormat(result)
                  /\ pc' = "returned"
                  /\ UNCHANGED << domainLower, mxLookups >>
             ELSE IF emailKind = "array"
             THEN /\ result' = verificationError(result,
                                  <<"e","m","a","i","l",".","s","p","l","i","t"," ","i","s"," ","n","o","t"," ","a"," ","f","u","n","c","t","i","o","n">>)
                  /\ pc' = "returned"
                  /\ UNCHANGED << domainLower, mxLookups >>
             ELSE LET parts == split(email, "@")
                      r1 == [result EXCEPT
                               !.is_role_account = isRoleAccount(parts[1]),
                               !.is_disposable = isDisposableDomain(toLowerCase(parts[2]))]
                  IN  /\ domainLower' = toLowerCase(parts[2])
                      /\ IF r1.is_disposable
                         THEN /\ result' = disposable(r1)
                              /\ pc' = "returned"
                              /\ UNCHANGED mxLookups
                         ELSE /\ result' = [r1 EXCEPT !.is_free_email =
                                               isFreeEmailProvider(toLowerCase(parts[2]))]
                              /\ pc' = "awaitMx"
                              /\ mxLookups' = mxLookups + 1
  /\ UNCHANGED << email, emailKind, options, mailProvider, mxHost, realEmailCheck,
                  randomTests, i, probe, realRcptReply,
                  senderVars >>

\* resolveMx settles: verifyEmail runs on to the real-address probe
ResolveMx(answer) ==
  /\ pc = "awaitMx"
  /\ IF ~ answer.ok \/ Len(answer.records) = 0
     THEN /\ result' = noMxRecords(result)
          /\ pc' = "returned"
          /\ UNCHANGED << mailProvider, mxHost, probe >>
     ELSE LET sorted == sortByPriority(answer.records)
              hosts  == [k \in DOMAIN sorted |-> sorted[k].exchange]
          IN  /\ result' = [result EXCEPT !.dns_check = TRUE, !.mx_records = hosts]
              /\ mailProvider' = detectMailProvider(hosts)
              /\ mxHost' = hosts[1]
              /\ probe' = [probe EXCEPT ![1] = testSMTPConnection(email, hosts[1])]
              /\ pc' = "awaitReal"
  /\ UNCHANGED << email, emailKind, options, skipCatchAll, domainLower, realEmailCheck, randomTests,
                  i, mxLookups, realRcptReply,
                  senderVars >>

\* the real-address probe has settled
AfterRealProbe ==
  /\ pc = "awaitReal"
  /\ probe[1].promise.settled
  /\ realEmailCheck' = probe[1].promise
  /\ LET check == probe[1].promise
         r1 == [result EXCEPT !.smtp_check = TRUE]
     IN  IF ~ check.connected
         THEN /\ result' = couldNotConnect(result)
              /\ pc' = "returned"
              /\ probe' = [probe EXCEPT ![1] = retire(@)]
         ELSE IF ~ check.accepted
         THEN /\ result' = rejected(r1, check)
              /\ pc' = "returned"
              /\ probe' = [probe EXCEPT ![1] = retire(@)]
         ELSE IF skipsCatchAllTest(skipCatchAll, mailProvider)
         THEN /\ result' = heuristicVerdict(r1,
                              calculateHeuristicConfidence(email, r1, mailProvider))
              /\ pc' = "returned"
              /\ probe' = [probe EXCEPT ![1] = retire(@)]
         ELSE /\ result' = r1
              /\ pc' = "awaitRandom"
              /\ \E randomString \in RandomStrings :
                   probe' = [probe EXCEPT
                               ![1] = retire(@),
                               ![2] = testSMTPConnection(
                                 generateRandomEmail(randomString, domainLower), mxHost)]
  /\ UNCHANGED << email, emailKind, options, skipCatchAll, domainLower, mailProvider, mxHost,
                  randomTests, i, mxLookups, realRcptReply,
                  senderVars >>

\* a synthetic probe has settled
AfterRandomProbe ==
  /\ pc = "awaitRandom"
  /\ probe[i + 2].promise.settled
  /\ randomTests' = Append(randomTests, probe[i + 2].promise)
  /\ IF i < numTests - 1
     THEN /\ pc' = "awaitGap"
          /\ UNCHANGED << result, i >>
     ELSE /\ i' = i + 1
          /\ result' = catchAllVerdict(result, randomTests')
          /\ pc' = "returned"
  /\ probe' = [probe EXCEPT ![i + 2] = retire(@)]
  /\ UNCHANGED << email, emailKind, options, skipCatchAll, domainLower, mailProvider, mxHost,
                  realEmailCheck, mxLookups, realRcptReply,
                  senderVars >>

\* the one-second gap between synthetic probes has passed
GapElapsed ==
  /\ pc = "awaitGap"
  /\ i' = i + 1
  /\ \E randomString \in RandomStrings :
       probe' = [probe EXCEPT ![i' + 2] = testSMTPConnection(
                   generateRandomEmail(randomString, domainLower), mxHost)]
  /\ pc' = "awaitRandom"
  /\ UNCHANGED << email, emailKind, options, skipCatchAll, result, domainLower, mailProvider, mxHost,
                  realEmailCheck, randomTests, mxLookups, realRcptReply,
                  senderVars >>

\* A continuation of verifyEmail is a microtask: it runs before any further
\* socket or timer event.
continuationReady ==
  \/ pc = "awaitReal" /\ probe[1].promise.settled
  \/ pc = "awaitRandom" /\ probe[i + 2].promise.settled

verifyUnchanged ==
  UNCHANGED << email, emailKind, options, skipCatchAll, pc, result, domainLower, mailProvider,
               mxHost, realEmailCheck, randomTests, i, mxLookups, senderVars >>

\* The byte stream of a connection is made of the sample lines: the first
\* half of a cut reply is followed by its second half.  q is the closure
\* after the data event.
wellFormed(q) ==
  LET lines == splitCRLF(q.response)
  IN  /\ lastLineOf(lines) \in ReplyLines \cup { << >> }
      /\ tailOf(lines) \in { << >>, PartialText }

noteRcptReply(c, data) ==
  realRcptReply' =
    IF /\ c = 1
       /\ ~ realRcptReply.answered
       /\ rcptWritten(probe[1])
       /\ Len(newLines(probe[1], data)) > 0
    THEN [answered |-> TRUE, line |-> newLines(probe[1], data)[1]]
    ELSE realRcptReply

\* Events of the probe verifyEmail is waiting for.
SocketData(c, data) ==
  /\ ~ continuationReady
  /\ ~ probe[c].retired
  /\ probe[c].socket \in {"open", "ended"}
  /\ probe' = [probe EXCEPT ![c] = onData(@, data)]
  /\ wellFormed(probe'[c])
  /\ noteRcptReply(c, data)
  /\ verifyUnchanged

SocketError(c, message) ==
  /\ ~ continuationReady
  /\ ~ probe[c].retired
  /\ probe[c].socket \in {"open", "ended"}
  /\ probe' = [probe EXCEPT ![c] = onError(@, message)]
  /\ UNCHANGED realRcptReply
  /\ verifyUnchanged

TimeoutFires(c) ==
  /\ ~ continuationReady
  /\ probe[c].timeout = "armed"
  /\ probe' = [probe EXCEPT ![c] = onTimeout(@)]
  /\ UNCHANGED realRcptReply
  /\ verifyUnchanged

\* The server closes the connection; the probe has no 'end' or 'close'
\* handler, and the socket (allowHalfOpen is off) closes with it: it is
\* destroyed, and the timer, if armed, stays armed.
RemoteCloses(c) ==
  /\ ~ continuationReady
  /\ ~ probe[c].retired
  /\ probe[c].socket \in {"open", "ended"}
  /\ probe' = [probe EXCEPT ![c] = socketDestroy(@)]
  /\ UNCHANGED realRcptReply
  /\ verifyUnchanged

\* Events of a connection whose outcome verifyEmail already has: the socket
\* was ended, not destroyed, and its handlers still run.
LateData(c, data) ==
  /\ ~ continuationReady
  /\ probe[c].retired
  /\ probe[c].socket = "ended"
  /\ probe' = [probe EXCEPT ![c] = onData(@, data)]
  /\ wellFormed(probe'[c])
  /\ noteRcptReply(c, data)
  /\ verifyUnchanged

LateError(c, message) ==
  /\ ~ continuationReady
  /\ probe[c].retired
  /\ probe[c].socket = "ended"
  /\ probe' = [probe EXCEPT ![c] = onError(@, message)]
  /\ UNCHANGED realRcptReply
  /\ verifyUnchanged

LateClose(c) ==
  /\ ~ continuationReady
  /\ probe[c].retired
  /\ probe[c].socket = "ended"
  /\ probe' = [probe EXCEPT ![c] = socketDestroy(@)]
  /\ UNCHANGED realRcptReply
  /\ verifyUnchanged

\* verifyEmail against an exchanger that sends whole lines; the model follows
\* each connection until verifyEmail has its outcome.
Next ==
  \/ Enter
  \/ \E answer \in MxAnswers : ResolveMx(answer)
  \/ AfterRealProbe
  \/ AfterRandomProbe
  \/ GapElapsed
  \/ \E c \in ProbeIds, data \in LineChunks : SocketData(c, data)
  \/ \E c \in ProbeIds, message \in ErrorMessages : SocketError(c, message)
  \/ \E c \in ProbeIds : TimeoutFires(c)
  \/ \E c \in ProbeIds : RemoteCloses(c)

Spec == Init /\ [][Next]_vars

\* One probe in full: verifyEmail of one address with the catch-all test
\* skipped, against an exchanger that may cut its replies, each connection
\* followed to its end.
InitProbe ==
  /\ Init
  /\ email = EmailPlain
  /\ emailKind = "string"
  /\ options = [kind |-> "object", skipCatchAll |-> TRUE]

NextProbe ==
  \/ Enter
  \/ \E answer \in MxAnswers : ResolveMx(answer)
  \/ AfterRealProbe
  \/ \E c \in ProbeIds, data \in LineChunks \cup CutChunks : SocketData(c, data)
  \/ \E c \in ProbeIds, message \in ErrorMessages : SocketError(c, message)
  \/ \E c \in ProbeIds : TimeoutFires(c)
  \/ \E c \in ProbeIds : RemoteCloses(c)
  \/ \E c \in ProbeIds, data \in LineChunks \cup CutChunks : LateData(c, data)
  \/ \E c \in ProbeIds, message \in ErrorMessages : LateError(c, message)
  \/ \E c \in ProbeIds : LateClose(c)

ProbeSpec == InitProbe /\ [][NextProbe]_vars

\* The same, with the timer of every probe firing if it stays armed.
LiveProbeSpec ==
  ProbeSpec /\ \A c \in ProbeIds : WF_vars(TimeoutFires(c))

(***************************************************************************)
(* The sending loop.                                                       *)
(***************************************************************************)
\* validator.validate (email-validator), on the contacts of the model
validate(address) == isValidFormat(address)

\* isEmailSafeToSend with every status but 'error' taken as safe
isEmailSafeToSendAnyAnswer(status) == status # <<"e","r","r","o","r">>

\* isEmailSafeToSend: the result is an object, so only its status counts
isEmailSafeToSend(status) ==
  IF status = <<"e","r","r","o","r">> THEN FALSE ELSE status \in { <<"s","a","f","e">> }

canSendToDomain(address, dls, time) ==
  LET domain == extractDomain(address)
  IN  IF domain = << >> THEN FALSE
      ELSE IF dls[domain] = 0 THEN TRUE
      ELSE ~ (time - dls[domain] < DOMAIN_COOLDOWN)

\* processCooldownQueue: the items whose cooldown is over, and the others
RECURSIVE selectQueue(_, _, _, _)
selectQueue(queue, dls, time, wantReady) ==
  IF Len(queue) = 0 THEN << >>
  ELSE LET item == queue[1]
           last == dls[extractDomain(item.email)]
           isReady == last = 0 \/ (time - last) >= DOMAIN_COOLDOWN
       IN  (IF isReady = wantReady THEN << item >> ELSE << >>)
             \o selectQueue(Tail(queue), dls, time, wantReady)

readyToSend(queue, dls, time) == selectQueue(queue, dls, time, TRUE)

stillOnCooldown(queue, dls, time) == selectQueue(queue, dls, time, FALSE)

\* the data saveProgress writes to sent.json
saveProgress(li, sl, pr, dls, queue) ==
  [exists |-> TRUE, sentLog |-> sl,
   progress |-> [lastIndex |-> li, lastRunDate |-> pr.lastRunDate,
                 sentToday |-> pr.sentToday],
   domainLastSent |-> dls, cooldownQueue |-> queue]

\* err.message.includes(...) of the catch block of sendMails
marksInvalid(message) ==
  \/ includes(message, <<"5","5","0">>)
  \/ includes(message, <<"N","o","S","u","c","h","U","s","e","r">>)
  \/ includes(message, <<"d","o","e","s"," ","n","o","t"," ","e","x","i","s","t">>)
  \/ includes(message, <<"R","e","l","a","y","i","n","g"," ","d","e","n","i","e","d">>)

\* The script starts: it loads sent.json, checks the daily limit, reads the
\* contacts and calls sendMails.
StartRun(gap) ==
  /\ senderPc = "off"
  /\ runs < MaxRuns
  /\ runs' = runs + 1
  /\ now' = now + gap
  /\ IF disk.exists
     THEN IF disk.progress.lastRunDate = today /\ disk.progress.sentToday >= maxPerRun
          THEN senderOff
          ELSE /\ senderPc' = "loop"
               /\ sentLog' = disk.sentLog
               /\ progress' =
                    IF disk.progress.lastRunDate # today
                    THEN [disk.progress EXCEPT !.sentToday = 0, !.lastRunDate = today]
                    ELSE disk.progress
               /\ lastIndex' = disk.progress.lastIndex
               /\ domainLastSent' = disk.domainLastSent
               /\ cooldownQueue' = disk.cooldownQueue
               /\ UNCHANGED << aliasIndex, lead, isFromQueue, verificationResult >>
     ELSE /\ senderPc' = "loop"
          /\ progress' = [lastIndex |-> 0, lastRunDate |-> today, sentToday |-> 0]
          /\ UNCHANGED << lastIndex, sentLog, domainLastSent, cooldownQueue,
                          aliasIndex, lead, isFromQueue, verificationResult >>
  /\ UNCHANGED << disk, today, outbox, leads, verifierVars >>

\* sendMails after its loop: the reset when every contact is processed, then
\* the process ends.  saved is sent.json as the loop left it.
finish(saved) ==
  /\ disk' =
       IF lastIndex >= Len(leads) /\ Len(cooldownQueue) = 0
       THEN saveProgress(0, sentLog, [progress EXCEPT !.sentToday = 0],
                         NoDomainLastSent, << >>)
       ELSE saved
  /\ senderOff

\* the two skips of a contact before it is verified
skipLead(fromQueue, still) ==
  /\ lastIndex' = IF fromQueue THEN lastIndex ELSE lastIndex + 1
  /\ cooldownQueue' = still
  /\ disk' = saveProgress(lastIndex', sentLog, progress, domainLastSent, still)
  /\ senderPc' = "loop"
  /\ UNCHANGED << sentLog, progress, domainLastSent, aliasIndex, lead,
                  isFromQueue, verificationResult >>

\* takeLead without the check of sentLog
takeLeadNoSentCheck(contact, fromQueue, still) ==
  IF ~ validate(contact.email) THEN skipLead(fromQueue, still)
  ELSE /\ senderPc' = "verifying"
       /\ lead' = contact
       /\ isFromQueue' = fromQueue
       /\ cooldownQueue' = still
       /\ verificationResult' = << >>
       /\ UNCHANGED << lastIndex, sentLog, progress, domainLastSent, aliasIndex, disk >>

takeLead(contact, fromQueue, still) ==
  IF sentLog[contact.email] # << >> THEN skipLead(fromQueue, still)
  ELSE IF ~ validate(contact.email) THEN skipLead(fromQueue, still)
  ELSE /\ senderPc' = "verifying"
       /\ lead' = contact
       /\ isFromQueue' = fromQueue
       /\ cooldownQueue' = still
       /\ verificationResult' = << >>
       /\ UNCHANGED << lastIndex, sentLog, progress, domainLastSent, aliasIndex, disk >>

\* One pass of the while loop of sendMails, from its test to its first await
\* (or to the end of sendMails).
LoopHead ==
  /\ senderPc = "loop"
  /\ IF ~ (lastIndex < Len(leads) \/ Len(cooldownQueue) > 0)
     THEN finish(disk)
     ELSE IF progress.sentToday >= maxPerRun
     THEN finish(saveProgress(lastIndex, sentLog, progress, domainLastSent,
                              cooldownQueue))
     ELSE LET ready == readyToSend(cooldownQueue, domainLastSent, now)
              still == stillOnCooldown(cooldownQueue, domainLastSent, now)
          IN  IF Len(ready) > 0 THEN takeLead(ready[1], TRUE, still)
              ELSE IF lastIndex < Len(leads)
              THEN takeLead(leads[lastIndex + 1], FALSE, still)
              ELSE IF Len(still) > 0
              THEN /\ senderPc' = "waitCooldown"
                   /\ cooldownQueue' = still
                   /\ UNCHANGED << lastIndex, sentLog, progress, domainLastSent,
                                   aliasIndex, lead, isFromQueue,
                                   verificationResult, disk >>
              ELSE finish(disk)
  /\ UNCHANGED << now, today, runs, outbox, leads, verifierVars >>

\* await verifyEmail(lead.email) returns: the safety gate, the cooldown gate,
\* and the call of transporter.sendMail.
VerifyReturns(status) ==
  /\ senderPc = "verifying"
  /\ verificationResult' = status
  /\ IF ~ isEmailSafeToSend(status)
     THEN /\ sentLog' = [sentLog EXCEPT ![lead.email] = <<"V","E","R","I","F","I","C","A","T","I","O","N","_","F","A","I","L","E","D","_">> \o status]
          /\ lastIndex' = IF isFromQueue THEN lastIndex ELSE lastIndex + 1
          /\ disk' = saveProgress(lastIndex', sentLog', progress, domainLastSent,
                                  cooldownQueue)
          /\ senderPc' = "loop"
          /\ UNCHANGED << cooldownQueue, aliasIndex >>
     ELSE IF ~ canSendToDomain(lead.email, domainLastSent, now)
     THEN /\ cooldownQueue' = IF isFromQueue THEN cooldownQueue
                              ELSE Append(cooldownQueue, lead)
          /\ lastIndex' = IF isFromQueue THEN lastIndex ELSE lastIndex + 1
          /\ disk' = saveProgress(lastIndex', sentLog, progress, domainLastSent,
                                  cooldownQueue')
          /\ senderPc' = "loop"
          /\ UNCHANGED << sentLog, aliasIndex >>
     ELSE /\ aliasIndex' = (aliasIndex + 1) % Len(aliases)
          /\ senderPc' = "sending"
          /\ UNCHANGED << lastIndex, sentLog, cooldownQueue, disk >>
  /\ UNCHANGED << progress, domainLastSent, lead, isFromQueue, now, today, runs,
                  outbox, leads, verifierVars >>

\* await transporter.sendMail(mailOptions) returns
SendSucceeds ==
  /\ senderPc = "sending"
  /\ progress' = [progress EXCEPT !.sentToday = @ + 1]
  /\ sentLog' = [sentLog EXCEPT ![lead.email] = Timestamp]
  /\ domainLastSent' = [domainLastSent EXCEPT ![extractDomain(lead.email)] = now]
  /\ lastIndex' = IF isFromQueue THEN lastIndex ELSE lastIndex + 1
  /\ disk' = saveProgress(lastIndex', sentLog', progress', domainLastSent',
                          cooldownQueue)
  /\ outbox' = Append(outbox, [to |-> lead.email, ok |-> TRUE, at |-> now,
                               day |-> today])
  /\ senderPc' = "delay"
  /\ UNCHANGED << cooldownQueue, aliasIndex, lead, isFromQueue, now, today, runs,
                  verificationResult, leads, verifierVars >>

\* await transporter.sendMail(mailOptions) throws
SendFails(message) ==
  /\ senderPc = "sending"
  /\ sentLog' = IF marksInvalid(message)
                THEN [sentLog EXCEPT ![lead.email] = <<"I","N","V","A","L","I","D","_","E","M","A","I","L">>]
                ELSE sentLog
  /\ lastIndex' = IF isFromQueue THEN lastIndex ELSE lastIndex + 1
  /\ disk' = saveProgress(lastIndex', sentLog', progress, domainLastSent,
                          cooldownQueue)
  /\ outbox' = Append(outbox, [to |-> lead.email, ok |-> FALSE, at |-> now,
                               day |-> today])
  /\ senderPc' = "delay"
  /\ UNCHANGED << progress, domainLastSent, cooldownQueue, aliasIndex, lead,
                  isFromQueue, now, today, runs, verificationResult, leads, verifierVars >>

\* the pause between two contacts is over
DelayElapsed(minutes) ==
  /\ senderPc = "delay"
  /\ now' = now + minutes
  /\ senderPc' = "loop"
  /\ UNCHANGED << lastIndex, sentLog, progress, domainLastSent, cooldownQueue,
                  aliasIndex, lead, isFromQueue, disk, today, runs,
                  verificationResult, outbox, leads, verifierVars >>

\* the five-minute wait for a cooldown is over
WaitElapsed ==
  /\ senderPc = "waitCooldown"
  /\ now' = now + CooldownWaitMinutes
  /\ senderPc' = "loop"
  /\ UNCHANGED << lastIndex, sentLog, progress, domainLastSent, cooldownQueue,
                  aliasIndex, lead, isFromQueue, disk, today, runs,
                  verificationResult, outbox, leads, verifierVars >>

\* process.on('SIGINT'): it can run only while sendMails is suspended
Sigint ==
  /\ senderPc \in {"verifying", "sending", "delay", "waitCooldown"}
  /\ disk' = saveProgress(lastIndex, sentLog, progress, domainLastSent,
                          cooldownQueue)
  /\ senderOff
  /\ UNCHANGED << now, today, runs, outbox, leads, verifierVars >>

\* Midnight passes between two runs of the script.
NewDay ==
  /\ senderPc = "off"
  /\ today < MaxDay + 1
  /\ today' = today + 1
  /\ UNCHANGED << senderPc, lastIndex, sentLog, progress, domainLastSent,
                  cooldownQueue, aliasIndex, lead, isFromQueue, disk, now, runs,
                  verificationResult, outbox, leads, verifierVars >>

InitSender ==
  /\ Init
  /\ email = EmailPlain
  /\ emailKind = "string"
  /\ options = [kind |-> "undefined", skipCatchAll |-> FALSE]

NextSender ==
  \/ \E gap \in RestartGaps : StartRun(gap)
  \/ LoopHead
  \/ \E status \in VerifyStatuses : VerifyReturns(status)
  \/ SendSucceeds
  \/ \E message \in SendErrors : SendFails(message)
  \/ \E minutes \in DelayMinutes : DelayElapsed(minutes)
  \/ WaitElapsed
  \/ Sigint
  \/ NewDay

SenderSpec == InitSender /\ [][NextSender]_vars

\* The sending loop on the file with three contacts at one domain.
InitQueue ==
  /\ verifierInit
  /\ email = EmailPlain
  /\ emailKind = "string"
  /\ options = [kind |-> "undefined", skipCatchAll |-> FALSE]
  /\ SenderInit
  /\ leads = ContactsSameDomain

QueueSpec == InitQueue /\ [][NextSender]_vars

\* The sending loop on the file with repeated rows.
InitRepeat ==
  /\ verifierInit
  /\ email = EmailPlain
  /\ emailKind = "string"
  /\ options = [kind |-> "undefined", skipCatchAll |-> FALSE]
  /\ SenderInit
  /\ leads = ContactsRepeated

RepeatSpec == InitRepeat /\ [][NextSender]_vars

(***************************************************************************)
(* Properties.                                                             *)
(***************************************************************************)
HardRejectCodes == { <<"5","5","0">>, <<"5","5","1">>, <<"5","5","3">>, <<"5","5","4">> }

TimedOut == Outcome(FALSE, FALSE, <<"C","o","n","n","e","c","t","i","o","n"," ","t","i","m","e","o","u","t">>, << >>)

\* C1: a probe reports accepted = true only after the server has replied to
\* RCPT TO, and only if that reply starts with 250 and holds none of the
\* rejection phrases; the reply to an earlier command alone never gives
\* accepted = true.
C1_AcceptedOnlyOnRcptReply ==
  /\ \A c \in ProbeIds :
       probe[c].promise.accepted => probe[c].rcptAnswered
  /\ probe[1].promise.accepted =>
       /\ realRcptReply.answered
       /\ startsWith(realRcptReply.line, <<"2","5","0">>)
       /\ ~ hasRejectionPhrase(realRcptReply.line)

\* C2: when the server took the greeting, HELO and MAIL FROM and answers
\* RCPT TO with 550, 551, 553 or 554, the probe reports connected = true,
\* accepted = false, reason 'User does not exist', and verifyEmail returns
\* status 'invalid' with a reason saying the user does not exist.
C2_HardRejectGivesInvalid ==
  (/\ realRcptReply.answered
   /\ \E code \in HardRejectCodes : startsWith(realRcptReply.line, code))
  => /\ probe[1].promise.connected
     /\ ~ probe[1].promise.accepted
     /\ probe[1].promise.reason = <<"U","s","e","r"," ","d","o","e","s"," ","n","o","t"," ","e","x","i","s","t">>
     /\ pc = "returned" =>
          /\ result.status = "invalid"
          /\ includes(result.reason, <<"d","o","e","s"," ","n","o","t"," ","e","x","i","s","t">>)

\* C3: a probe whose RCPT TO is written and unanswered, and that no socket
\* error ended, is settled by the timer alone: connected = false, reason
\* 'Connection timeout'; it is neither accepted nor a hard rejection.
C3_SilentAfterRcptTimesOut ==
  \A c \in ProbeIds :
    (/\ probe[c].promise.settled
     /\ rcptWritten(probe[c])
     /\ ~ probe[c].rcptAnswered
     /\ probe[c].promise.reason \notin ErrorMessages)
    => probe[c].promise = TimedOut

\* C4: what one probe transmits is a prefix of HELO, MAIL FROM, RCPT TO,
\* QUIT, in that order: no DATA command and no message content.
C4_WireIsCommandPrefix ==
  \A c \in ProbeIds :
    \E n \in 0..4 : probe[c].wire = SubSeq(commands(probe[c].email), 1, n)

\* C4 witness: a probe has transmitted all four commands, and a reply to
\* RCPT TO arrived after it ended its socket.
C4_Witness ==
  /\ Len(probe[1].wire) = 4
  /\ probe[1].wire[4] = <<"Q","U","I","T">> \o CRLF
  /\ probe[1].rcptAnswered
  /\ probe[1].retired

\* C5: every probe that was started settles, its outcome never changes once
\* it is settled, and a probe whose timer fired has the outcome connected =
\* false, 'Connection timeout'.
C5_ProbeSettlesOnce ==
  /\ \A c \in ProbeIds :
       (probe[c].socket # "none") ~> probe[c].promise.settled
  /\ [][\A c \in ProbeIds :
          probe[c].promise.settled => probe'[c].promise = probe[c].promise]_vars
  /\ [](\A c \in ProbeIds :
          probe[c].timeout = "fired" => probe[c].promise = TimedOut)

\* C5 witness: the server fell silent after the greeting, and the timer
\* settled the probe.
C5_Witness ==
  /\ pc = "awaitReal"
  /\ probe[1].step = 1
  /\ probe[1].timeout = "fired"
  /\ probe[1].socket = "destroyed"
  /\ probe[1].promise = TimedOut

\* C6: the confidence score of a result is an integer from 0 to 100.
C6_ScoreInRange ==
  result.confidence_score \in 0..100

\* C6 witness: the heuristic scorer gave a returned result its score, with
\* penalties applied.
C6_Witness ==
  /\ pc = "returned"
  /\ result.reason = <<"L","i","k","e","l","y"," ","v","a","l","i","d"," ","(","c","o","r","p","o","r","a","t","e"," ","m","a","i","l"," ","s","e","r","v","e","r",")">>
  /\ result.is_role_account
  /\ result.confidence_score = 50

\* C7: in a returned result, is_catch_all is true exactly when the status is
\* 'catch_all'.
C7_CatchAllFlagIffStatus ==
  pc = "returned" => (result.is_catch_all <=> result.status = "catch_all")

\* C7 witness: a returned catch-all result.
C7_Witness ==
  /\ pc = "returned"
  /\ result.status = "catch_all"
  /\ Len(randomTests) = numTests

\* C8: a returned result with risk 'low' has a score of at least 75, and one
\* with risk 'high' a score of at most 10.
C8_RiskMatchesScore ==
  pc = "returned" =>
    /\ result.risk_level = "low" => result.confidence_score >= 75
    /\ result.risk_level = "high" => result.confidence_score <= 10

\* C8 witness: a returned low-risk result of the heuristic branch below 90.
C8_Witness ==
  /\ pc = "returned"
  /\ result.risk_level = "low"
  /\ result.confidence_score < 90

BadShapeEmails == { EmailNoAt, EmailNoDot, EmailSpace }

DisposableEmails == { EmailDisposable }

\* C9: an address that fails the shape check or is on the disposable list
\* is returned with status 'invalid', score 0 and risk 'high'.
C9_EarlyRejectIsHighRisk ==
  (/\ pc = "returned"
   /\ emailKind = "string"
   /\ email \in BadShapeEmails \cup DisposableEmails)
  => /\ result.status = "invalid"
     /\ result.confidence_score = 0
     /\ result.risk_level = "high"

\* C10: for an address that fails the shape check or is on the disposable
\* list, verifyEmail makes no MX lookup and opens no connection.
C10_EarlyRejectNoNetwork ==
  email \in BadShapeEmails \cup DisposableEmails
  => /\ mxLookups = 0
     /\ \A c \in ProbeIds : probe[c].socket = "none"
     /\ pc \in {"entry", "returned", "rejected"}

\* C10 witness: such an address has been returned.
C10_Witness ==
  /\ pc = "returned"
  /\ emailKind = "string"
  /\ email \in BadShapeEmails \cup DisposableEmails
  /\ mxLookups = 0

\* C11: when MX resolution fails or gives no record, verifyEmail returns
\* status 'invalid', reason 'No MX records found', dns_check false, score 0,
\* risk 'high', and no probe is started.
C11_NoMxIsInvalid ==
  [][\A answer \in MxAnswers :
       ((~ answer.ok \/ Len(answer.records) = 0) /\ ResolveMx(answer))
       => /\ pc' = "returned"
          /\ result'.status = "invalid"
          /\ result'.reason = <<"N","o"," ","M","X"," ","r","e","c","o","r","d","s"," ","f","o","u","n","d">>
          /\ ~ result'.dns_check
          /\ result'.confidence_score = 0
          /\ result'.risk_level = "high"
          /\ \A c \in ProbeIds : probe'[c].socket = "none"]_vars

\* C11 witness: verifyEmail has returned after its one MX lookup found
\* nothing.
C11_Witness ==
  /\ pc = "returned"
  /\ mxLookups = 1
  /\ result.mx_records = << >>
  /\ \A c \in ProbeIds : probe[c].socket = "none"

\* C12: when the last line the server sent to the real-address probe is a
\* 4xx or 5xx refusal, verifyEmail returns status 'invalid'.
C12_RefusalIsInvalid ==
  [][(/\ pc = "awaitReal"
      /\ pc' = "returned"
      /\ isNegativeReply(lastLineOf(splitCRLF(probe[1].response))))
     => result'.status = "invalid"]_vars

\* C13: when the real-address probe settled with connected = false,
\* verifyEmail returns status 'unknown', score 50, risk 'medium', and no
\* synthetic probe is started.
C13_TransportFailureIsUnknown ==
  (realEmailCheck.settled /\ ~ realEmailCheck.connected)
  => /\ pc = "returned"
     /\ result.status = "unknown"
     /\ result.confidence_score = 50
     /\ result.risk_level = "medium"
     /\ \A c \in ProbeIds \ {1} : probe[c].socket = "none"

\* C13 witness: verifyEmail returned after a socket error of the real-address
\* probe.
C13_Witness ==
  /\ pc = "returned"
  /\ realEmailCheck.settled
  /\ realEmailCheck.reason \in ErrorMessages
  /\ ~ realEmailCheck.connected

CatchAllProviders == { "zoho", "protonmail", "consumer" }

\* C14: on the catch-all path (real probe accepted, skipCatchAll false,
\* provider zoho, protonmail or consumer) exactly two synthetic probes are
\* made, each for a random local part at the domain of the address and at the
\* same exchanger; two accepted give 'catch_all', flag true, 60, 'medium',
\* anything else gives 'valid', 90, 'low'.
C14_CatchAllTest ==
  /\ []((/\ pc = "returned"
          /\ realEmailCheck.accepted
          /\ ~ skipCatchAll
          /\ mailProvider \in CatchAllProviders)
         => /\ Len(randomTests) = 2
            /\ \A c \in {2, 3} : probe[c].socket # "none"
            /\ IF randomTests[1].accepted /\ randomTests[2].accepted
               THEN /\ result.status = "catch_all"
                    /\ result.is_catch_all
                    /\ result.confidence_score = 60
                    /\ result.risk_level = "medium"
               ELSE /\ result.status = "valid"
                    /\ ~ result.is_catch_all
                    /\ result.confidence_score = 90
                    /\ result.risk_level = "low")
  /\ [][\A c \in {2, 3} :
          (probe[c].socket = "none" /\ probe'[c].socket # "none")
          => /\ ~ skipCatchAll
             /\ mailProvider \in CatchAllProviders
             /\ realEmailCheck'.accepted
             /\ probe'[c].mxHost = result.mx_records[1]
             /\ \E randomString \in RandomStrings :
                  probe'[c].email =
                    randomString \o << "@" >> \o toLowerCase(split(email, "@")[2])]_vars

\* C14 witness: the catch-all test ended with one synthetic address accepted
\* and the other not.
C14_Witness ==
  /\ pc = "returned"
  /\ Len(randomTests) = 2
  /\ randomTests[1].accepted
  /\ ~ randomTests[2].accepted
  /\ result.status = "valid"
  /\ result.confidence_score = 90

SkipProviders == { "google_workspace", "microsoft365", "corporate" }

\* C15: when the provider is google_workspace, microsoft365 or corporate,
\* verifyEmail makes the real-address probe and no synthetic probe, and what
\* it returns after an accepted probe is the heuristic verdict, whatever
\* skipCatchAll is: the result is a function of the address, the MX answer
\* and the probe's outcome alone.
C15_ProviderPolicyOverridesFlag ==
  mailProvider \in SkipProviders
  => /\ probe[1].socket # "none"
     /\ \A c \in ProbeIds \ {1} : probe[c].socket = "none"
     /\ randomTests = << >>
     /\ pc \in {"awaitReal", "returned"}
     /\ (pc = "returned" /\ realEmailCheck.accepted)
        => result = heuristicVerdict(result,
                      calculateHeuristicConfidence(email, result, mailProvider))

\* C15 witness: verifyEmail, called with skipCatchAll false, returned for an
\* address at a google_workspace exchanger after its probe was accepted.
C15_Witness ==
  /\ pc = "returned"
  /\ ~ skipCatchAll
  /\ mailProvider = "google_workspace"
  /\ realEmailCheck.accepted
  /\ result.status = "valid"

\* C16: at most one connection of a verifyEmail call is open at any time; a
\* probe's connection is closed before the next probe opens its own.
C16_OneConnectionAtATime ==
  Cardinality({ c \in ProbeIds : probe[c].socket \in {"open", "ended"} }) <= 1

\* C17: verifyEmail never rejects: every call ends by returning a result,
\* and a fault inside it gives status 'unknown', score 50, risk 'medium' with
\* the fault's message in the reason.
C17_NeverRejects ==
  /\ pc # "rejected"
  /\ (pc = "returned" /\ emailKind = "array" /\ isValidFormat(email))
     => /\ result.status = "unknown"
        /\ result.confidence_score = 50
        /\ result.risk_level = "medium"
        /\ includes(result.reason, <<"e","m","a","i","l",".","s","p","l","i","t"," ","i","s"," ","n","o","t"," ","a"," ","f","u","n","c","t","i","o","n">>)

\* C18: the random local parts of the synthetic addresses reach no field of
\* the result: the result names the address it was asked about, no text field
\* holds a random string, and after the catch-all test the result is fixed by
\* the address, the MX answer and how many synthetic probes were accepted.
C18_RandomAddressesDoNotShow ==
  pc = "returned"
  => /\ result.email = email
     /\ \A randomString \in RandomStrings :
          /\ ~ includes(result.reason, randomString)
          /\ \A k \in DOMAIN result.mx_records :
               ~ includes(result.mx_records[k], randomString)
     /\ Len(randomTests) = numTests
        => result =
             IF \A k \in DOMAIN randomTests : randomTests[k].accepted
             THEN [result EXCEPT !.is_catch_all = TRUE, !.status = "catch_all",
                                 !.reason = <<"D","o","m","a","i","n"," ","a","c","c","e","p","t","s"," ","a","l","l"," ","e","m","a","i","l","s"," ","(","c","a","t","c","h","-","a","l","l",")">>,
                                 !.confidence_score = 60, !.risk_level = "medium"]
             ELSE [result EXCEPT !.is_catch_all = FALSE, !.status = "valid",
                                 !.reason = <<"E","m","a","i","l"," ","v","e","r","i","f","i","e","d"," ","s","u","c","c","e","s","s","f","u","l","l","y">>,
                                 !.confidence_score = 90, !.risk_level = "low"]

\* C18 witness: a catch-all verdict reached with two different random
\* addresses probed.
C18_Witness ==
  /\ pc = "returned"
  /\ result.status = "catch_all"
  /\ probe[2].email # << >>
  /\ probe[3].email # << >>
  /\ probe[2].email # probe[3].email

\* The successful and failed calls of transporter.sendMail to an address.
sendsTo(address) == { k \in DOMAIN outbox : outbox[k].to = address }

failedVerification(entry) ==
  /\ Len(entry) >= Len(<<"V","E","R","I","F","I","C","A","T","I","O","N","_","F","A","I","L","E","D","_">>)
  /\ startsWith(entry, <<"V","E","R","I","F","I","C","A","T","I","O","N","_","F","A","I","L","E","D","_">>)

\* C19: transporter.sendMail is called for a contact only in an iteration in
\* which the verification of that same contact returned the status 'safe'; a
\* verification that returns any other status makes no call of sendMail and
\* records the contact in sentLog as VERIFICATION_FAILED_<status>, and a contact
\* so recorded on disk is never given to sendMail afterwards.
C19_SendOnlyAfterSafe ==
  [][ /\ outbox' # outbox
         => /\ senderPc = "sending"
            /\ verificationResult = <<"s","a","f","e">>
            /\ Len(outbox') = Len(outbox) + 1
            /\ outbox'[Len(outbox')].to = lead.email
            /\ ~ failedVerification(disk.sentLog[lead.email])
      /\ (senderPc = "verifying" /\ senderPc' # "off" /\ verificationResult' # <<"s","a","f","e">>)
         => /\ outbox' = outbox
            /\ senderPc' = "loop"
            /\ sentLog'[lead.email] = <<"V","E","R","I","F","I","C","A","T","I","O","N","_","F","A","I","L","E","D","_">> \o verificationResult'
            /\ disk'.sentLog[lead.email] = sentLog'[lead.email]
      /\ \A address \in LeadEmails :
           failedVerification(disk.sentLog[address])
           => failedVerification(disk'.sentLog[address])
    ]_vars

\* C19 witness: one contact was sent to after a safe verification, and another
\* was refused by the verification and is recorded as such.
C19_Witness ==
  /\ senderPc = "delay"
  /\ verificationResult = <<"s","a","f","e">>
  /\ outbox # << >>
  /\ outbox[Len(outbox)].to = lead.email
  /\ outbox[Len(outbox)].ok
  /\ \E address \in LeadEmails :
       /\ sentLog[address] = <<"V","E","R","I","F","I","C","A","T","I","O","N","_","F","A","I","L","E","D","_","i","n","v","a","l","i","d">>
       /\ sendsTo(address) = { }

\* C20: on each calendar day, the successful sends of all the runs of that day
\* together are at most MAX_PER_RUN.
C20_DailyLimit ==
  \A day \in 1 .. MaxDay + 1 :
    Cardinality({ k \in DOMAIN outbox : outbox[k].ok /\ outbox[k].day = day })
      <= maxPerRun

\* C21: any two successful sends to addresses of one domain are at least
\* DOMAIN_COOLDOWN apart, whichever runs made them.
C21_DomainCooldown ==
  \A j, k \in DOMAIN outbox :
    (/\ j < k
     /\ outbox[j].ok
     /\ outbox[k].ok
     /\ extractDomain(outbox[j].to) = extractDomain(outbox[k].to))
    => outbox[k].at - outbox[j].at >= DOMAIN_COOLDOWN

\* The contacts sent.json holds in its cooldown queue.
savedQueue(file) == { file.cooldownQueue[q].email : q \in DOMAIN file.cooldownQueue }

\* C22: when SIGINT ends the script while the loop is suspended, every contact
\* with a well-formed address that has no sentLog entry and was never given
\* to sendMail is, in the saved sent.json, at or after lastIndex or in the
\* cooldown queue, so the next run still comes to it.
C22_InterruptSkipsNobody ==
  [][ (senderPc \in {"verifying", "sending", "delay", "waitCooldown"} /\ senderPc' = "off")
      => \A k \in DOMAIN leads :
           (/\ validate(leads[k].email)
            /\ disk'.sentLog[leads[k].email] = << >>
            /\ sendsTo(leads[k].email) = { })
           => \/ k > disk'.progress.lastIndex
              \/ leads[k].email \in savedQueue(disk')
    ]_vars

\* C23: a data event on a probe that is not yet settled (greeting, HELO or
\* MAIL FROM stage) whose reply line, the last complete line received, is a
\* 4xx/5xx line settles the probe with connected = false and accepted =
\* false, destroys the connection, cancels the timer and writes no command.
C23_RefusalAbortsProbe ==
  [][ \A c \in ProbeIds :
        LET p == probe[c]
            q == probe'[c]
            lastLine == lastLineOf(splitCRLF(q.response))
        IN  (/\ p.socket = "open"
             /\ ~ p.promise.settled
             /\ q.response # p.response
             /\ isNegativeReply(lastLine))
            => /\ q.promise = Outcome(FALSE, FALSE, <<"S","M","T","P"," ","e","r","r","o","r",":"," ">> \o lastLine,
                                      SubSeq(lastLine, 1, 3))
               /\ q.socket = "destroyed"
               /\ q.timeout = "cleared"
               /\ q.wire = p.wire
               /\ q.step = p.step
    ]_vars

\* C23 witness: the probe of the real address was refused at the MAIL FROM
\* stage, after HELO and MAIL FROM were written.
C23_Witness ==
  /\ pc = "awaitReal"
  /\ probe[1].step = 2
  /\ Len(probe[1].wire) = 2
  /\ probe[1].promise.settled
  /\ ~ probe[1].promise.connected
  /\ ~ probe[1].promise.accepted
  /\ probe[1].promise.reason = <<"S","M","T","P"," ","e","r","r","o","r",":"," ","5","5","0"," ","N","o"," ","s","u","c","h"," ","u","s","e","r">>
  /\ probe[1].socket = "destroyed"
  /\ probe[1].timeout = "cleared"

\* C24: a data event that completes no reply line writes no command and does
\* not advance the step: the probe moves only on a new complete line.
C24_MovesOnlyOnNewLine ==
  [][ \A c \in ProbeIds :
        (/\ probe'[c].response # probe[c].response
         /\ ~ probe'[c].arrived)
        => /\ probe'[c].wire = probe[c].wire
           /\ probe'[c].step = probe[c].step
    ]_vars

\* verifyEmail returned from the branch that skips the catch-all test.
returnedFromSkipPath ==
  /\ pc = "returned"
  /\ realEmailCheck.settled
  /\ realEmailCheck.connected
  /\ realEmailCheck.accepted
  /\ skipsCatchAllTest(skipCatchAll, mailProvider)

\* C25: a result returned from the branch that skips the catch-all test has a
\* score in 0..100 and: score >= 75 gives valid/low, 50..74 gives
\* valid/medium, below 50 gives unknown/medium; its status is never 'invalid'.
C25_SkipPathMapping ==
  returnedFromSkipPath
  => /\ result.confidence_score \in 0..100
     /\ result.status # "invalid"
     /\ << result.status, result.risk_level >> =
          IF result.confidence_score >= 75 THEN << "valid", "low" >>
          ELSE IF result.confidence_score >= 50 THEN << "valid", "medium" >>
          ELSE << "unknown", "medium" >>

\* C25 witness: the skip branch returned a score below 50.
C25_Witness ==
  /\ returnedFromSkipPath
  /\ result.confidence_score < 50
  /\ result.status = "unknown"

\* C26: when the catch-all test is skipped for a google_workspace,
\* microsoft365 or corporate exchanger the score is at least 50 and the status
\* is 'valid'; a result with the reason 'Cannot verify definitively' (status
\* 'unknown') comes only from a call with skipCatchAll set and a zoho,
\* protonmail or consumer exchanger.
C26_ProviderSkipIsValid ==
  /\ (returnedFromSkipPath /\ mailProvider \in SkipProviders)
     => /\ result.confidence_score >= 50
        /\ result.status = "valid"
  /\ (pc = "returned" /\ result.reason = <<"C","a","n","n","o","t"," ","v","e","r","i","f","y"," ","d","e","f","i","n","i","t","i","v","e","l","y">>)
     => /\ result.status = "unknown"
        /\ skipCatchAll
        /\ mailProvider \in {"zoho", "protonmail", "consumer"}

\* C26 witness: the lowest score of a provider skip, a two-letter upper-case
\* role account at a free domain behind a corporate exchanger, called without
\* skipCatchAll.
C26_Witness ==
  /\ returnedFromSkipPath
  /\ ~ skipCatchAll
  /\ mailProvider = "corporate"
  /\ result.is_role_account
  /\ result.is_free_email
  /\ result.confidence_score = 50
  /\ result.status = "valid"
  /\ result.risk_level = "medium"

\* C27: whenever the loop takes contacts out of cooldownQueue, each of them is
\* processed in that iteration: it is the contact the iteration goes on with,
\* or it already has a sentLog entry.
C27_QueuedContactsAreHandled ==
  [][ (senderPc = "loop" /\ senderPc' # "off")
      => \A q \in DOMAIN cooldownQueue :
           LET contact == cooldownQueue[q]
           IN  (\A r \in DOMAIN cooldownQueue' : cooldownQueue'[r] # contact)
               => \/ senderPc' = "verifying" /\ lead' = contact
                  \/ sentLog[contact.email] # << >>
    ]_vars

\* The successful calls of transporter.sendMail to an address.
successfulSendsTo(address) == { k \in sendsTo(address) : outbox[k].ok }

\* C28: no address has more than one successful send, over all runs, and an
\* address with a successful send has its sentLog entry in sent.json.
C28_AtMostOneSendPerAddress ==
  \A address \in LeadEmails :
    /\ Cardinality(successfulSendsTo(address)) <= 1
    /\ successfulSendsTo(address) # { } => disk.sentLog[address] = Timestamp

\* C28 witness: a second run, started after the first one finished the list
\* and reset lastIndex, has walked the whole file again, repeated rows
\* included, and the two contacts sent before were not sent to again.
C28_Witness ==
  /\ runs = 2
  /\ senderPc = "loop"
  /\ lastIndex = Len(leads)
  /\ leads[4].email = leads[1].email
  /\ leads[3].email = leads[2].email
  /\ Len(outbox) = 2
  /\ \A k \in DOMAIN outbox : outbox[k].ok
  /\ Cardinality(successfulSendsTo(leads[1].email)) = 1
  /\ Cardinality(successfulSendsTo(leads[2].email)) = 1

\* C29: when the real-address probe was accepted and, in the catch-all test,
\* at least one synthetic probe ended with connected = false, the result is
\* status 'valid', score 90, risk 'low', and the catch-all flag is not set.
C29_UnconnectedProbeCountsAsRejected ==
  (/\ pc = "returned"
   /\ realEmailCheck.accepted
   /\ Len(randomTests) = numTests
   /\ \E k \in DOMAIN randomTests : ~ randomTests[k].connected)
  => /\ result.status = "valid"
     /\ result.confidence_score = 90
     /\ result.risk_level = "low"
     /\ ~ result.is_catch_all

\* C29 witness: the first synthetic probe was accepted and the second one
\* timed out.
C29_Witness ==
  /\ pc = "returned"
  /\ realEmailCheck.accepted
  /\ Len(randomTests) = numTests
  /\ randomTests[1].accepted
  /\ randomTests[2] = TimedOut
  /\ result.status = "valid"

=============================================================================
